---- MODULE Spec2Model ----
(***************************************************************************)
(* Model of examples/gurobi/fantop/fantopmodel.py (the solve function of   *)
(* the fantasy football draft optimiser) and of the columnar conversion    *)
(* exercised by ticdat/testing/testpandas.py.                              *)
(***************************************************************************)
EXTENDS Integers, Sequences, FiniteSets, TLC

\* ------------------------------------------------------------------ bounds
MaxPlayers == 2
MaxPos == 3

NameSeq == <<"A", "B", "C", "D">>
Positions == {"QB", "RB"}

\* ------------------------------------------------------------------ helpers
RECURSIVE SumOver(_, _)
SumOver(S, f) ==
    IF S = {} THEN 0
    ELSE LET e == CHOOSE e \in S : TRUE IN f[e] + SumOver(S \ {e}, f)

SetMax(S) == CHOOSE e \in S : \A o \in S : o <= e
SetMin(S) == CHOOSE e \in S : \A o \in S : e <= o

Range(f) == {f[k] : k \in DOMAIN f}

\* sorted(S) for a set of integers
RECURSIVE sorted(_)
sorted(S) ==
    IF S = {} THEN <<>>
    ELSE LET lo == SetMin(S) IN <<lo>> \o sorted(S \ {lo})

\* sorted(S, key=...): every order of S that Python's stable sort can produce
\* from some iteration order of the set
sorted_by_key(S, key) ==
    {s \in [1..Cardinality(S) -> S] :
        /\ \A e \in S : \E i \in DOMAIN s : s[i] = e
        /\ \A i, j \in DOMAIN s : i < j => key[s[i]] <= key[s[j]]}

\* zip(a, b)
zip(a, b) ==
    LET n == IF Len(a) < Len(b) THEN Len(a) ELSE Len(b)
    IN [i \in 1..n |-> <<a[i], b[i]>>]

\* ------------------------------------------------------------------ input schema
PlayerRow(pos, adp, pts) ==
    [Position |-> pos, AverageDraftPosition |-> adp, ExpectedPoints |-> pts]

RosterRow(mins, maxs, minr, maxr, flex) ==
    [MinNumStarters |-> mins, MaxNumStarters |-> maxs,
     MinNumReserve |-> minr, MaxNumReserve |-> maxr, FlexStatus |-> flex]

dataFactory(par, pl, rr, dr, mdp) ==
    [parameters |-> par, players |-> pl, roster_requirements |-> rr,
     drafted |-> dr, my_draft_positions |-> mdp]

solutionFactory_TicDat == [my_draft |-> <<>>]

\* ------------------------------------------------------------------ state
VARIABLES
    dat,                      \* the input data object handed to solve
    pc,                       \* position of solve
    expected_draft_position,  \* dict player -> expected draft position
    already_drafted_by_me,
    can_be_drafted_by_me,
    m,                        \* the solver model: names of its variables and constraints
    status,                   \* m.status after m.optimize()
    x,                        \* the values of my_starters / my_reserves after optimize
    sln,                      \* the output data object under construction
    stdout,                   \* messages printed
    result,                   \* how solve ended
    table,                    \* copy_to_pandas: the table of the data object
    drop_pk_columns,          \* copy_to_pandas: the flag
    frame,                    \* copy_to_pandas: the resulting frame
    pd_pc                     \* copy_to_pandas: position

solve_vars == <<dat, pc, expected_draft_position, already_drafted_by_me,
                can_be_drafted_by_me, m, status, x, sln, stdout, result>>
pandas_vars == <<table, drop_pk_columns, frame, pd_pc>>
vars == <<solve_vars, pandas_vars>>

\* ------------------------------------------------------------------ input validation
\* dataFactory.add_foreign_key(...) and find_foreign_key_failures
find_foreign_key_failures(d) ==
    {<<"drafted", p>> : p \in {q \in DOMAIN d.drafted : q \notin DOMAIN d.players}}
    \cup
    {<<"players", p>> : p \in {q \in DOMAIN d.players :
                                 d.players[q].Position \notin DOMAIN d.roster_requirements}}

ParameterKeys == {"Starter Weight", "Reserve Weight", "Maximum Number of Flex Starters"}
FlexStatuses == {"Flex Eligible", "Flex Ineligible"}

\* dataFactory.set_data_type(...) and find_data_type_failures
find_data_type_failures(d) ==
    {<<"parameters", k>> : k \in {q \in DOMAIN d.parameters :
            q \notin ParameterKeys \/ ~(d.parameters[q].Value >= 0)}}
    \cup
    {<<"players", p>> : p \in {q \in DOMAIN d.players :
            ~(d.players[q].AverageDraftPosition > 0)}}
    \cup
    {<<"roster_requirements", r>> : r \in {q \in DOMAIN d.roster_requirements :
            LET row == d.roster_requirements[q] IN
            \/ ~(row.MinNumStarters >= 0)
            \/ ~(row.MinNumReserve >= 0)
            \/ ~(row.MaxNumReserve >= 0)
            \/ ~(row.MaxNumStarters > 0)
            \/ row.FlexStatus \notin FlexStatuses}}
    \cup
    {<<"drafted", p>> : p \in {q \in DOMAIN d.drafted :
            ~(d.drafted[q].DraftPosition > 0)}}
    \cup
    {<<"my_draft_positions", k>> : k \in {q \in d.my_draft_positions : ~(q > 0)}}

\* lines 76-79: the drafted positions, as a set, start at 1 and have no gap
draft_positions_sequential(d) ==
    LET draft_positions == {d.drafted[p].DraftPosition : p \in DOMAIN d.drafted}
    IN  DOMAIN d.drafted # {} =>
            /\ SetMin(draft_positions) = 1
            /\ Cardinality(draft_positions) = SetMax(draft_positions)

\* lines 73-79
input_asserts_pass(d) ==
    /\ find_foreign_key_failures(d) = {}
    /\ find_data_type_failures(d) = {}
    /\ draft_positions_sequential(d)

\* ------------------------------------------------------------------ lines 82-89
\* lines 82-87: drafted players keep their position, the undrafted ones follow in
\* the order `order` (one result of sorting them by Average Draft Position)
expected_draft_position_of(d, order) ==
    LET n == Cardinality(DOMAIN d.drafted)
    IN  [p \in DOMAIN d.drafted \cup Range(order) |->
            IF p \in DOMAIN d.drafted THEN d.drafted[p].DraftPosition
            ELSE n + (CHOOSE i \in DOMAIN order : order[i] = p)]

\* the undrafted players in any order, the sort key forgotten
undrafted_orders_unsorted(d) ==
    sorted_by_key(DOMAIN d.players \ DOMAIN d.drafted, [p \in DOMAIN d.players |-> 0])

undrafted_orders(d) ==
    sorted_by_key(DOMAIN d.players \ DOMAIN d.drafted,
                  [p \in DOMAIN d.players |-> d.players[p].AverageDraftPosition])

\* lines 88-89 without the comparison with len(dat.players)
expected_asserts_pass_no_len(d, edp) ==
    /\ SetMax(Range(edp)) = Cardinality(Range(edp))
    /\ SetMin(Range(edp)) = 1

\* lines 88-89
expected_asserts_pass(d, edp) ==
    /\ SetMax(Range(edp)) = Cardinality(Range(edp))
    /\ Cardinality(Range(edp)) = Cardinality(DOMAIN d.players)
    /\ SetMin(Range(edp)) = 1

\* ------------------------------------------------------------------ lines 91-144
already_drafted_by_me_of(d) ==
    {p \in DOMAIN d.drafted : d.drafted[p].DraftPosition \in d.my_draft_positions}

can_be_drafted_by_me_of(d) ==
    ((DOMAIN d.players) \ (DOMAIN d.drafted)) \cup already_drafted_by_me_of(d)

\* the binary variables my_starters / my_reserves of lines 97-99
Assignments(can) ==
    [starter : [can -> {0, 1}], reserve : [can -> {0, 1}]]

picks(xs) == [p \in DOMAIN xs.starter |-> xs.starter[p] + xs.reserve[p]]

\* lines 103-109
already_drafted_or_cant_draft_twice(already, can, xs) ==
    \A p \in can :
        IF p \in already THEN picks(xs)[p] = 1 ELSE picks(xs)[p] <= 1

\* lines 111-115 with the bound off by one (enumerate started at 1)
at_most_can_be_ahead_of_off_by_one(d, edp, can, xs) ==
    LET mine == sorted(d.my_draft_positions)
    IN  \A k \in DOMAIN mine :
            SumOver({p \in can : edp[p] < mine[k]},
                    [p \in DOMAIN xs.starter |-> xs.starter[p] + xs.reserve[p]]) <= k

\* lines 111-115
at_most_can_be_ahead_of(d, edp, can, xs) ==
    LET mine == sorted(d.my_draft_positions)
    IN  \A k \in DOMAIN mine :
            SumOver({p \in can : edp[p] < mine[k]}, picks(xs)) <= k - 1

\* lines 117-120
my_draft_size(can, xs) == SumOver(can, picks(xs))

need_to_extend_by_at_least_one(already, can, xs) ==
    my_draft_size(can, xs) >= Cardinality(already) + 1

\* line 120 with the total off by one
cant_exceed_draft_total_off_by_one(d, can, xs) ==
    my_draft_size(can, xs) <= Cardinality(d.my_draft_positions) + 1

cant_exceed_draft_total(d, can, xs) ==
    my_draft_size(can, xs) <= Cardinality(d.my_draft_positions)

\* lines 122-130 without the min_reserve constraint
roster_constraints_no_min_reserve(d, can, xs) ==
    \A position \in DOMAIN d.roster_requirements :
        LET row == d.roster_requirements[position]
            players == {p \in can : d.players[p].Position = position}
            starters == SumOver(players, xs.starter)
            reserves == SumOver(players, xs.reserve)
        IN  /\ starters >= row.MinNumStarters
            /\ starters <= row.MaxNumStarters
            /\ reserves <= row.MaxNumReserve

\* lines 122-130
roster_constraints(d, can, xs) ==
    \A position \in DOMAIN d.roster_requirements :
        LET row == d.roster_requirements[position]
            players == {p \in can : d.players[p].Position = position}
            starters == SumOver(players, xs.starter)
            reserves == SumOver(players, xs.reserve)
        IN  /\ starters >= row.MinNumStarters
            /\ starters <= row.MaxNumStarters
            /\ reserves >= row.MinNumReserve
            /\ reserves <= row.MaxNumReserve

\* lines 132-137
max_flex(d, can, xs) ==
    "Maximum Number of Flex Starters" \in DOMAIN d.parameters =>
        LET players == {p \in can :
                d.roster_requirements[d.players[p].Position].FlexStatus = "Flex Eligible"}
        IN  SumOver(players, xs.starter)
                <= d.parameters["Maximum Number of Flex Starters"].Value

Feasible(d, edp, already, can, xs) ==
    /\ already_drafted_or_cant_draft_twice(already, can, xs)
    /\ at_most_can_be_ahead_of(d, edp, can, xs)
    /\ need_to_extend_by_at_least_one(already, can, xs)
    /\ cant_exceed_draft_total(d, can, xs)
    /\ roster_constraints(d, can, xs)
    /\ max_flex(d, can, xs)

\* lines 139-144
Objective(d, can, xs) ==
    LET starter_weight == IF "Starter Weight" \in DOMAIN d.parameters
                          THEN d.parameters["Starter Weight"].Value ELSE 1
        reserve_weight == IF "Reserve Weight" \in DOMAIN d.parameters
                          THEN d.parameters["Reserve Weight"].Value ELSE 1
    IN  SumOver(can, [p \in can |-> d.players[p].ExpectedPoints *
                        (xs.starter[p] * starter_weight + xs.reserve[p] * reserve_weight)])

\* the names of the constraints added to m
constraint_names(d, already, can) ==
    {<<IF p \in already THEN "already_drafted" ELSE "cant_draft_twice", p>> : p \in can}
    \cup {<<"at_most_can_be_ahead_of", k - 1, sorted(d.my_draft_positions)[k]>> :
            k \in 1..Cardinality(d.my_draft_positions)}
    \cup {<<"need_to_extend_by_at_least_one">>, <<"cant_exceed_draft_total">>}
    \cup {<<n, position>> : n \in {"min_starters", "max_starters", "min_reserve", "max_reserve"},
                            position \in DOMAIN d.roster_requirements}
    \cup (IF "Maximum Number of Flex Starters" \in DOMAIN d.parameters
          THEN {<<"max_flex">>} ELSE {})

\* m.optimize(): the solutions the solver may report as optimal
OptimalSolutions(d, edp, already, can) ==
    LET feasible == {xs \in Assignments(can) : Feasible(d, edp, already, can, xs)}
        best == SetMax({Objective(d, can, xs) : xs \in feasible})
    IN  {xs \in feasible : Objective(d, can, xs) = best}

\* ------------------------------------------------------------------ lines 151-168
almostone(v) ==
    LET diff == v - 1 IN (IF diff < 0 THEN -diff ELSE diff) * 10000 < 1

picked_orders(edp, can, xs) ==
    sorted_by_key({p \in can : almostone(xs.starter[p]) \/ almostone(xs.reserve[p])}, edp)

\* lines 163-166 with the labels of line 165 exchanged
my_draft_row_labels_exchanged(d, already, xs, player_name, draft_position) ==
    [DraftPosition |-> draft_position,
     Position |-> d.players[player_name].Position,
     PlannedOrActual |-> IF player_name \in already THEN "Planned" ELSE "Actual",
     StarterOrReserve |-> IF almostone(xs.starter[player_name]) THEN "Starter" ELSE "Reserve"]

\* lines 163-166: the row written for a pair of the zip
my_draft_row(d, already, xs, player_name, draft_position) ==
    [DraftPosition |-> draft_position,
     Position |-> d.players[player_name].Position,
     PlannedOrActual |-> IF player_name \in already THEN "Actual" ELSE "Planned",
     StarterOrReserve |-> IF almostone(xs.starter[player_name]) THEN "Starter" ELSE "Reserve"]

\* lines 161-166 with the draft positions paired in descending order
my_draft_of_descending_positions(d, already, xs, picked) ==
    LET up == sorted(d.my_draft_positions)
        pairs == zip(picked, [i \in DOMAIN up |-> up[Len(up) + 1 - i]])
    IN  [p \in {pairs[i][1] : i \in DOMAIN pairs} |->
            LET i == CHOOSE j \in DOMAIN pairs : pairs[j][1] = p
            IN  [DraftPosition |-> pairs[i][2],
                 Position |-> d.players[p].Position,
                 PlannedOrActual |-> IF p \in already THEN "Actual" ELSE "Planned",
                 StarterOrReserve |-> IF almostone(xs.starter[p]) THEN "Starter" ELSE "Reserve"]]

\* lines 161-166: the rows of sln.my_draft after the loop over the zip
my_draft_of(d, already, xs, picked) ==
    LET pairs == zip(picked, sorted(d.my_draft_positions))
    IN  [p \in {pairs[i][1] : i \in DOMAIN pairs} |->
            LET i == CHOOSE j \in DOMAIN pairs : pairs[j][1] = p
            IN  my_draft_row(d, already, xs, p, pairs[i][2])]

\* line 162, for every pair of the zip
zip_assert_passes(d, edp, picked) ==
    LET pairs == zip(picked, sorted(d.my_draft_positions))
    IN  \A i \in DOMAIN pairs : pairs[i][2] <= edp[pairs[i][1]]

\* ------------------------------------------------------------------ inputs
NameIndex(name) == CHOOSE j \in DOMAIN NameSeq : NameSeq[j] = name

\* players A, B, ... in this order; the n-th player's Expected Points
ExpectedPointsOf(name) == 22 - 2 * NameIndex(name)

\* the Average Draft Position column of the players ns: ascending in the order of
\* the names, descending, or the same for all (so that sorting meets ties)
AverageDraftPositionColumns(ns) ==
    {[p \in ns |-> NameIndex(p)],
     [p \in ns |-> Cardinality(ns) + 1 - NameIndex(p)],
     [p \in ns |-> 1]}

PlayerTables ==
    UNION {{[p \in ns |-> PlayerRow(pos[p], adp[p], ExpectedPointsOf(p))] :
                pos \in [ns -> Positions], adp \in AverageDraftPositionColumns(ns)}
           : ns \in {{NameSeq[i] : i \in 1..n} : n \in 0..MaxPlayers}}

RosterTables ==
    {[p \in Positions |-> RosterRow(1, 1, 0, 0, "Flex Eligible")],
     [p \in Positions |-> IF p = "QB" THEN RosterRow(0, 1, 0, 1, "Flex Eligible")
                                      ELSE RosterRow(0, 2, 1, 1, "Flex Ineligible")],
     [p \in {"QB"} |-> RosterRow(0, 2, 0, 2, "Flex Eligible")],
     [p \in Positions |-> IF p = "QB" THEN RosterRow(1, 2, 0, 2, "Flex Eligible")
                                      ELSE RosterRow(0, 0, 0, 1, "Flex Eligible")]}

DraftedTables(pl) ==
    UNION {[ns -> [DraftPosition : 1..MaxPos]] : ns \in SUBSET DOMAIN pl}

ParameterTables ==
    {<<>>,
     [k \in {"Starter Weight", "Reserve Weight"} |->
        [Value |-> IF k = "Starter Weight" THEN 2 ELSE 1]],
     [k \in {"Maximum Number of Flex Starters"} |-> [Value |-> 1]]}

NoAssignment == [starter |-> <<>>, reserve |-> <<>>]
NoModel == [vars |-> {}, constrs |-> {}]
NoFrame == [index |-> {}, columns |-> <<>>, cells |-> <<>>]
NoTable == [pk |-> <<>>, data |-> <<>>, rows |-> <<>>]

PandasIdle ==
    /\ table = NoTable
    /\ drop_pk_columns = TRUE
    /\ frame = NoFrame
    /\ pd_pc = "idle"

SolveFresh ==
    /\ expected_draft_position = <<>>
    /\ already_drafted_by_me = {}
    /\ can_be_drafted_by_me = {}
    /\ m = NoModel
    /\ status = "LOADED"
    /\ x = NoAssignment
    /\ sln = solutionFactory_TicDat
    /\ stdout = <<>>
    /\ result = "running"

Init ==
    /\ \E par \in ParameterTables, pl \in PlayerTables, rr \in RosterTables,
          mdp \in SUBSET (1..MaxPos) :
            \E dr \in DraftedTables(pl) :
                dat = dataFactory(par, pl, rr, dr, mdp)
    /\ pc = "validate"
    /\ SolveFresh
    /\ PandasIdle

\* ------------------------------------------------------------------ solve
\* lines 73-79 (every data object of the model has the tables and fields of the
\* schema, so good_tic_dat_object holds of it)
Validate ==
    /\ pc = "validate"
    /\ IF input_asserts_pass(dat)
       THEN /\ pc' = "expected"
            /\ result' = result
       ELSE /\ pc' = "done"
            /\ result' = "AssertionError"
    /\ UNCHANGED <<dat, expected_draft_position, already_drafted_by_me,
                   can_be_drafted_by_me, m, status, x, sln, stdout>>
    /\ UNCHANGED pandas_vars

\* lines 82-89
ExpectedDraftPosition ==
    /\ pc = "expected"
    /\ \E order \in undrafted_orders(dat) :
        LET edp == expected_draft_position_of(dat, order)
        IN  /\ expected_draft_position' = edp
            /\ IF DOMAIN edp = {}
               THEN \* max() of an empty sequence
                    /\ pc' = "done"
                    /\ result' = "ValueError"
               ELSE IF expected_asserts_pass(dat, edp)
               THEN /\ pc' = "build"
                    /\ result' = result
               ELSE /\ pc' = "done"
                    /\ result' = "AssertionError"
    /\ UNCHANGED <<dat, already_drafted_by_me, can_be_drafted_by_me, m, status, x,
                   sln, stdout>>
    /\ UNCHANGED pandas_vars

\* lines 91-144
BuildModel ==
    /\ pc = "build"
    /\ already_drafted_by_me' = already_drafted_by_me_of(dat)
    /\ can_be_drafted_by_me' = can_be_drafted_by_me_of(dat)
    /\ m' = [vars |-> {"starter", "reserve"} \X can_be_drafted_by_me_of(dat),
             constrs |-> constraint_names(dat, already_drafted_by_me_of(dat),
                                          can_be_drafted_by_me_of(dat))]
    /\ pc' = "optimize"
    /\ UNCHANGED <<dat, expected_draft_position, status, x, sln, stdout, result>>
    /\ UNCHANGED pandas_vars

\* lines 146-149
Optimize ==
    /\ pc = "optimize"
    /\ LET optimal == OptimalSolutions(dat, expected_draft_position,
                                       already_drafted_by_me, can_be_drafted_by_me)
       IN  IF optimal = {}
           THEN /\ status' = "INFEASIBLE"
                /\ x' = x
                /\ stdout' = Append(stdout, "No draft at all is possible!")
                /\ result' = "None"
                /\ pc' = "done"
           ELSE /\ status' = "OPTIMAL"
                /\ x' \in optimal
                /\ stdout' = stdout
                /\ result' = result
                /\ pc' = "extract"
    /\ UNCHANGED <<dat, expected_draft_position, already_drafted_by_me,
                   can_be_drafted_by_me, m, sln>>
    /\ UNCHANGED pandas_vars

\* lines 151-168
ExtractSolution ==
    /\ pc = "extract"
    /\ \E picked \in picked_orders(expected_draft_position, can_be_drafted_by_me, x) :
        LET total == Cardinality(dat.my_draft_positions)
        IN  IF Len(picked) > total
            THEN /\ result' = "AssertionError"
                 /\ UNCHANGED <<sln, stdout>>
            ELSE /\ stdout' =
                        IF Len(picked) < total
                        THEN Append(stdout, "Your model is over-constrained, and thus only a partial draft was possible")
                        ELSE stdout
                 /\ IF zip_assert_passes(dat, expected_draft_position, picked)
                    THEN /\ sln' = [my_draft |-> my_draft_of(dat, already_drafted_by_me,
                                                             x, picked)]
                         /\ result' = "sln"
                    ELSE /\ sln' = sln
                         /\ result' = "AssertionError"
    /\ pc' = "done"
    /\ UNCHANGED <<dat, expected_draft_position, already_drafted_by_me,
                   can_be_drafted_by_me, m, status, x>>
    /\ UNCHANGED pandas_vars

Next ==
    \/ Validate
    \/ ExpectedDraftPosition
    \/ BuildModel
    \/ Optimize
    \/ ExtractSolution

Spec == Init /\ [][Next]_vars

\* ------------------------------------------------------------------ properties of solve
Done == pc = "done"
Returned == Done /\ result = "sln"
NoDraftMessage == \E i \in DOMAIN stdout : stdout[i] = "No draft at all is possible!"

\* the players whose solver variables are (almost) one
PickedPlayers ==
    {p \in can_be_drafted_by_me : almostone(x.starter[p]) \/ almostone(x.reserve[p])}

my_draft_rows(position, starter_or_reserve) ==
    {p \in DOMAIN sln.my_draft :
        /\ sln.my_draft[p].Position = position
        /\ sln.my_draft[p].StarterOrReserve = starter_or_reserve}

\* The input of the end-to-end scenario: players A (QB, 1, 20) and B (RB, 2, 18),
\* QB and RB each with Min Num Starters = Max Num Starters = 1 (and no reserve
\* required), nothing drafted, no parameters, my_draft_positions = {1, 2}.
ScenarioInput ==
    /\ dat.players = [p \in {"A", "B"} |->
            IF p = "A" THEN PlayerRow("QB", 1, 20) ELSE PlayerRow("RB", 2, 18)]
    /\ DOMAIN dat.roster_requirements = {"QB", "RB"}
    /\ \A r \in {"QB", "RB"} :
            /\ dat.roster_requirements[r].MinNumStarters = 1
            /\ dat.roster_requirements[r].MaxNumStarters = 1
            /\ dat.roster_requirements[r].MinNumReserve = 0
    /\ DOMAIN dat.drafted = {}
    /\ DOMAIN dat.parameters = {}
    /\ dat.my_draft_positions = {1, 2}

\* C1: on the scenario input solve returns a my_draft table with exactly two rows,
\* A as Starter with Draft Position 1 and B as Starter with Draft Position 2.
C1_Scenario ==
    (Done /\ ScenarioInput) =>
        /\ result = "sln"
        /\ DOMAIN sln.my_draft = {"A", "B"}
        /\ sln.my_draft["A"].DraftPosition = 1
        /\ sln.my_draft["A"].StarterOrReserve = "Starter"
        /\ sln.my_draft["A"].Position = "QB"
        /\ sln.my_draft["B"].DraftPosition = 2
        /\ sln.my_draft["B"].StarterOrReserve = "Starter"
        /\ sln.my_draft["B"].Position = "RB"

C1_Witness == Returned /\ ScenarioInput

\* C2: whenever solve returns an output, every drafted player whose Draft Position
\* is one of my_draft_positions is a row of my_draft marked "Actual", and every
\* other row of my_draft is marked "Planned".
C2_ActualPlanned ==
    Returned =>
        LET mine == {p \in DOMAIN dat.drafted :
                        dat.drafted[p].DraftPosition \in dat.my_draft_positions}
        IN  /\ \A p \in mine :
                /\ p \in DOMAIN sln.my_draft
                /\ sln.my_draft[p].PlannedOrActual = "Actual"
            /\ \A p \in (DOMAIN sln.my_draft) \ mine :
                sln.my_draft[p].PlannedOrActual = "Planned"

C2_Witness ==
    /\ Returned
    /\ \E p, q \in DOMAIN sln.my_draft :
        /\ sln.my_draft[p].PlannedOrActual = "Actual"
        /\ sln.my_draft[q].PlannedOrActual = "Planned"

\* the Draft Position values of the drafted table are exactly 1..N, one player each
drafted_contiguous(d) ==
    /\ \A p, q \in DOMAIN d.drafted :
        p # q => d.drafted[p].DraftPosition # d.drafted[q].DraftPosition
    /\ {d.drafted[p].DraftPosition : p \in DOMAIN d.drafted}
        = 1..Cardinality(DOMAIN d.drafted)

\* an input that conforms to the foreign keys and data types of the schema and
\* whose drafted positions are a contiguous range 1..N
passes_input_validation(d) ==
    /\ find_foreign_key_failures(d) = {}
    /\ find_data_type_failures(d) = {}
    /\ drafted_contiguous(d)

\* C3: for every input that passes input validation and has an empty
\* my_draft_positions table, solve reports that no draft is possible and returns
\* nothing, the solver status not being optimal.
C3_EmptyMyDraftPositions ==
    (Done /\ passes_input_validation(dat) /\ dat.my_draft_positions = {}) =>
        /\ result = "None"
        /\ NoDraftMessage
        /\ status # "OPTIMAL"

\* the same with at least one player in the players table
C3_WithPlayers ==
    (Done /\ passes_input_validation(dat) /\ dat.my_draft_positions = {}
          /\ DOMAIN dat.players # {}) =>
        /\ result = "None"
        /\ NoDraftMessage
        /\ status = "INFEASIBLE"

\* C4: when the drafted Draft Positions are not a contiguous range 1..N (a gap, a
\* start other than 1, two players sharing a position), solve fails with an
\* assertion and no solver variable or constraint has been created.
C4_NonContiguousAsserts ==
    (Done /\ ~drafted_contiguous(dat)) =>
        /\ result = "AssertionError"
        /\ m = NoModel
        /\ status = "LOADED"

\* two drafted players share a position and the set of positions has no gap: the
\* check of lines 76-79 passes and the assertion of line 88 fails
C4_Witness ==
    /\ Done
    /\ result = "AssertionError"
    /\ input_asserts_pass(dat)
    /\ ~drafted_contiguous(dat)
    /\ DOMAIN expected_draft_position # {}

\* C5: for every input that passes input validation, solve returns an output iff
\* the solver status is optimal; when the optimised model is not optimal, solve
\* prints "No draft at all is possible!", returns nothing and raises no failure.
C5_OutputIffOptimal ==
    (Done /\ passes_input_validation(dat)) =>
        /\ (result = "sln") <=> (status = "OPTIMAL")
        /\ (m # NoModel /\ status # "OPTIMAL") =>
                /\ result = "None"
                /\ NoDraftMessage
                /\ sln = solutionFactory_TicDat

C5_Witness ==
    /\ Done
    /\ passes_input_validation(dat)
    /\ status = "INFEASIBLE"
    /\ result = "None"
    /\ dat.my_draft_positions # {}

\* C7: whenever solve returns an output, for every position of roster_requirements
\* the number of "Starter" rows of that position lies between Min and Max Num
\* Starters, the number of "Reserve" rows between Min and Max Num Reserve, and
\* every player the solver picked is a row of my_draft.
C7_RosterBounds ==
    Returned =>
        /\ \A position \in DOMAIN dat.roster_requirements :
            LET row == dat.roster_requirements[position]
                starters == Cardinality(my_draft_rows(position, "Starter"))
                reserves == Cardinality(my_draft_rows(position, "Reserve"))
            IN  /\ row.MinNumStarters <= starters
                /\ starters <= row.MaxNumStarters
                /\ row.MinNumReserve <= reserves
                /\ reserves <= row.MaxNumReserve
        /\ DOMAIN sln.my_draft = PickedPlayers

C7_Witness ==
    /\ Returned
    /\ \E position \in DOMAIN dat.roster_requirements :
        /\ dat.roster_requirements[position].MinNumReserve > 0
        /\ my_draft_rows(position, "Reserve") # {}
    /\ \E position \in DOMAIN dat.roster_requirements :
        my_draft_rows(position, "Starter") # {}

\* C8: in every optimal solution, the picked players sorted by expected draft
\* position and paired with the sorted my_draft_positions each get a draft
\* position <= their expected draft position: the assertion of the output loop
\* never fails.
C8_PairingAssertHolds ==
    (status = "OPTIMAL") =>
        /\ \A picked \in picked_orders(expected_draft_position, can_be_drafted_by_me, x) :
            zip_assert_passes(dat, expected_draft_position, picked)
        /\ result # "AssertionError"

\* a returned draft in which a player is planned ahead of their expected position
\* and a candidate expected earlier was left out
C8_Witness ==
    /\ Returned
    /\ \E p \in DOMAIN sln.my_draft :
        sln.my_draft[p].DraftPosition < expected_draft_position[p]
    /\ \E q \in can_be_drafted_by_me : q \notin DOMAIN sln.my_draft

\* C9: whenever solve reaches model construction, expected_draft_position is a
\* bijection from the players onto 1..|players| that gives every drafted player
\* the drafted Draft Position and the undrafted players the positions
\* |drafted|+1..|players| in ascending order of Average Draft Position.
C9_ExpectedDraftPosition ==
    (pc \in {"build", "optimize", "extract"} \/ m # NoModel) =>
        LET edp == expected_draft_position
            undrafted == (DOMAIN dat.players) \ (DOMAIN dat.drafted)
            n == Cardinality(DOMAIN dat.drafted)
        IN  /\ DOMAIN edp = DOMAIN dat.players
            /\ Range(edp) = 1..Cardinality(DOMAIN dat.players)
            /\ \A p, q \in DOMAIN edp : p # q => edp[p] # edp[q]
            /\ \A p \in DOMAIN dat.drafted : edp[p] = dat.drafted[p].DraftPosition
            /\ {edp[p] : p \in undrafted} = (n + 1)..Cardinality(DOMAIN dat.players)
            /\ \A p, q \in undrafted :
                edp[p] < edp[q] =>
                    dat.players[p].AverageDraftPosition <= dat.players[q].AverageDraftPosition

\* model construction reached with a drafted player and with two undrafted
\* players whose Average Draft Positions differ
C9_Witness ==
    /\ pc = "build"
    /\ \E p, q \in (DOMAIN dat.players) \ (DOMAIN dat.drafted) :
        /\ dat.players[p].AverageDraftPosition < dat.players[q].AverageDraftPosition
        /\ NameIndex(q) < NameIndex(p)

\* ------------------------------------------------------------------ copy_to_pandas
\* A table of a data object: its primary-key fields, its data fields and its rows,
\* keyed by a scalar (one primary-key field) or by a tuple (several).
MaxKey == 2
DataValues == {7, 8}

TableSchemas ==
    {[pk |-> <<"eData">>, data |-> <<>>],
     [pk |-> <<"dData1", "dData2">>, data |-> <<>>],
     [pk |-> <<"aField">>, data |-> <<"aData1">>],
     [pk |-> <<"bField1", "bField2">>, data |-> <<"bData">>]}

PrimaryKeys(schema) ==
    IF Len(schema.pk) = 1 THEN 1..MaxKey ELSE [1..Len(schema.pk) -> 1..MaxKey]

TableOf(schema, rows) == [pk |-> schema.pk, data |-> schema.data, rows |-> rows]

\* the components of a primary key, one per primary-key field
key_components(t, k) == IF Len(t.pk) = 1 THEN <<k>> ELSE k

\* the records of the table with every field as a column
all_field_records(t) ==
    {[f \in Range(t.pk) \cup Range(t.data) |->
        IF f \in Range(t.pk)
        THEN key_components(t, k)[CHOOSE i \in DOMAIN t.pk : t.pk[i] = f]
        ELSE t.rows[k][f]] : k \in DOMAIN t.rows}

\* the index label of a record: a scalar for one primary-key field, else a tuple
index_label(t, rec) ==
    IF Len(t.pk) = 1 THEN rec[t.pk[1]] ELSE [i \in DOMAIN t.pk |-> rec[t.pk[i]]]

\* the flag ignored: the primary-key fields always stay columns
frame_columns_flag_ignored(t, drop) == t.pk \o t.data

frame_columns(t, drop) == IF drop THEN t.data ELSE t.pk \o t.data

\* copy_to_pandas for one table: a frame indexed by the primary key
copy_to_pandas(t, drop) ==
    LET records == all_field_records(t)
        columns == frame_columns(t, drop)
    IN  [index |-> {index_label(t, rec) : rec \in records},
         columns |-> columns,
         cells |-> [label \in {index_label(t, rec) : rec \in records} |->
                        LET rec == CHOOSE r \in records : index_label(t, r) = label
                        IN  [c \in Range(columns) |-> rec[c]]]]

SolveIdle ==
    /\ dat = dataFactory(<<>>, <<>>, <<>>, <<>>, {})
    /\ pc = "idle"
    /\ SolveFresh

InitPandas ==
    /\ \E schema \in TableSchemas :
        \E keys \in SUBSET PrimaryKeys(schema) :
            \E rows \in [keys -> [Range(schema.data) -> DataValues]] :
                table = TableOf(schema, rows)
    /\ drop_pk_columns \in BOOLEAN
    /\ frame = NoFrame
    /\ pd_pc = "call"
    /\ SolveIdle

CopyToPandas ==
    /\ pd_pc = "call"
    /\ frame' = copy_to_pandas(table, drop_pk_columns)
    /\ pd_pc' = "done"
    /\ UNCHANGED <<table, drop_pk_columns>>
    /\ UNCHANGED solve_vars

NextPandas == CopyToPandas

SpecPandas == InitPandas /\ [][NextPandas]_vars

\* C6: the frame's index is exactly the set of primary keys of the table (scalars
\* for one primary-key field, tuples for several) in both settings of
\* drop_pk_columns; the primary-key fields are no columns when the flag is set
\* (the default) and are columns holding the key components when it is not.
C6_IndexAndPkColumns ==
    (pd_pc = "done") =>
        /\ frame.index = DOMAIN table.rows
        /\ DOMAIN frame.cells = DOMAIN table.rows
        /\ drop_pk_columns =>
                Range(frame.columns) \cap Range(table.pk) = {}
        /\ ~drop_pk_columns =>
                \A i \in DOMAIN table.pk :
                    /\ table.pk[i] \in Range(frame.columns)
                    /\ \A k \in DOMAIN table.rows :
                        frame.cells[k][table.pk[i]] = key_components(table, k)[i]
        /\ \A f \in Range(table.data) :
                /\ f \in Range(frame.columns)
                /\ \A k \in DOMAIN table.rows : frame.cells[k][f] = table.rows[k][f]

C6_Witness ==
    /\ pd_pc = "done"
    /\ ~drop_pk_columns
    /\ Len(table.pk) > 1
    /\ Cardinality(DOMAIN table.rows) > 1

====
